---- MODULE Spec2Model ----
(***************************************************************************)
(* Model of src/wifi/wifi.py (class Wifi): the connection supervisor of a  *)
(* wireless station interface.  One cooperative task runs start, monitor,  *)
(* connect or reconnect; the radio (WLAN) is an environment that changes   *)
(* its link state on its own between any two queries of the task; a        *)
(* cancellation is delivered only at a suspension point (an await of       *)
(* sleep_ms).  Time is the value ticks_diff(ticks_ms(), start) of the      *)
(* running reconnect attempt, which advances only in the 50 ms polls.      *)
(***************************************************************************)
EXTENDS Integers, Sequences, FiniteSets, TLC

VARIABLES
    entry,          \* the coroutine the caller awaits: start, monitor, connect, reconnect
    pc,             \* position of the task
    inMonitor,      \* a monitor frame is on the stack
    running,        \* self._running
    hasRcb, hasFcb, \* reconnect_callback / failure_callback is not None
    timeout,        \* the timeout argument of the running reconnect attempt
    elapsed,        \* ticks_diff(ticks_ms(), start) of the running attempt
    retval,         \* what the last reconnect returned: "none", "true", "false"
    lastPoll,       \* what the last evaluation of the loop condition saw of the radio
    obsConn,        \* some isconnected() query of the attempt returned True
    obsDropped,     \* ... and a later isconnected() query returned False
    callArg,        \* the timeout argument of the awaited connect or start
    reqs,           \* connect requests the running call has sent to the radio
    lastReq,        \* the arguments of the last of them
    outcome,        \* how the awaited coroutine ended: none, returned, cancel, fault
    wlanActive, wlanConnected, wlanStatus,   \* the radio
    lastLog,        \* the last record written to the log
    excKind, excAt, \* the last exception raised in the task and where
    iterEnd,        \* how the last finished iteration body of monitor ended
    iter,           \* iteration bodies started
    nSleeps,        \* pollInterval sleeps completed
    nSucc, nFail,   \* attempts of monitor that returned True / False
    nRcb, nFcb,     \* invocations of reconnect_callback / failure_callback
    cbArg,          \* argument of the last reconnect_callback invocation
    connectRet,     \* what connect returned to start, until the first iteration has used it
    stopIter,       \* the iteration in which a stop was requested and not yet acted on, or -1
    open,           \* reconnect attempts begun and not yet ended
    entered,        \* set by the entry of monitor until its first loop test: no, clean, after_stop
    reentries,      \* calls of monitor made after an earlier call of it ended
    counting,       \* the counters above are kept (and bound the run by MaxIter)
    constructed,    \* __init__ has run
    country_code, power_mode,   \* self.__country_code, self.__power_mode
    countryCalls,   \* the values passed to country(), in order
    pmCalls,        \* the values passed to wlan.config(pm=...), in order
    deinitCalls,    \* wlan.deinit() calls
    lastOp,         \* the last property operation and its argument
    cfg,            \* the attributes ssid and password of a WifiConfiguration
    file,           \* the record at configuration/wifi.json: whether it exists, its text
    saved,          \* the attributes the configuration held at the last save()
    cfgPhase        \* init, saved, fresh (a new default object after a save), loaded

taskVars  == <<entry, pc, inMonitor, running, hasRcb, hasFcb, outcome>>
localVars == <<timeout, elapsed, retval, lastPoll, obsConn, obsDropped,
               callArg, reqs, lastReq>>
radioVars == <<wlanActive, wlanConnected, wlanStatus>>
histVars  == <<lastLog, excKind, excAt, iterEnd, iter, nSleeps, nSucc, nFail,
               nRcb, nFcb, cbArg, counting,
               connectRet,
               stopIter,
               open,
               entered,
               reentries>>
propVars  == <<constructed, country_code, power_mode, countryCalls, pmCalls,
               deinitCalls, lastOp>>
cfgVars   == <<cfg, file, saved, cfgPhase>>
vars      == <<taskVars, localVars, radioVars, histVars, propVars, cfgVars>>

(* ------------------------------ constants ------------------------------ *)

PollMs == 50
DefaultTimeout == 10000
DefaultPowerMode == 10555712
DefaultCountry == "US"

(* ------------------------------- bounds -------------------------------- *)

MaxIter == 2
MaxTimeoutPolls == 2
MaxWrites == 3
MaxReentries == 1

Entries == {"start", "monitor", "connect", "reconnect"}
Timeouts == {t \in 1..(PollMs * MaxTimeoutPolls) : t = 1 \/ t % 25 = 0}
StatusValues == {-1, 0}
CountryCodes == {"US", "GB", "DE"}
PowerModes == {DefaultPowerMode, 0, 17}
None == "None"
\* line 19: the power mode before __init__ sets it (None), outside PowerModes
UnsetPowerMode == -1

\* one more event for a counter, where counters are kept
Count(n) == IF counting THEN n + 1 ELSE n

(* ------------------------------ reconnect ------------------------------ *)

\* the loop gives up one poll before the timeout
LoopCond_EarlyStop(connected, status, e, t) ==
    (~connected) /\ status >= 0 /\ e + PollMs < t

\* the loop does not look at the driver status
LoopCond_IgnoreStatus(connected, status, e, t) ==
    (~connected) /\ e < t

\* line 59: the condition of the poll loop
LoopCond(connected, status, e, t) ==
    (~connected) /\ status >= 0 /\ e < t

\* line 59: what isconnected() and status() report to the loop condition
PollSees(connected, status) ==
    IF connected THEN "connected"
    ELSE IF status < 0 THEN "negative" ELSE "pending"

\* lines 61-65: the record reconnect writes
OutcomeLog(connected) ==
    IF connected THEN "info:connected" ELSE "warning:timeout"

\* line 66: the value reconnect returns
ReturnValue(connected) ==
    IF connected THEN "true" ELSE "false"

ClearLocals ==
    /\ timeout' = 0
    /\ elapsed' = 0
    /\ retval' = "none"
    /\ lastPoll' = "none"
    /\ obsConn' = FALSE
    /\ obsDropped' = FALSE
    /\ callArg' = 0
    /\ reqs' = 0
    /\ lastReq' = <<>>

\* an isconnected() query of the running attempt returned c
Observe(c) ==
    /\ obsConn' = (obsConn \/ c)
    /\ obsDropped' = (obsDropped \/ (obsConn /\ ~c))

(* ------------------------- exception handling -------------------------- *)

\* lines 71-84: the statements guarded by monitor's try
InTry == inMonitor /\ pc # "m_finally"

\* monitor without its `except Exception` clause
MonitorCatches_CancelOnly(kind) == kind = "cancel"

\* lines 81-84: the except clauses of monitor's try
MonitorCatches(kind) == kind \in {"cancel", "fault"}

MonitorLog(kind) ==
    IF kind = "cancel" THEN "info:monitor cancelled" ELSE "error:monitor"

\* start without its `except Exception` clause
StartCatches_CancelOnly(kind) == kind = "cancel"

\* lines 47-50: the except clauses of start's try
StartCatches(kind) == kind \in {"cancel", "fault"}

StartLog(kind) ==
    IF kind = "cancel" THEN "info:start cancelled" ELSE "error:start"

Where ==
    IF inMonitor THEN (IF pc = "m_finally" THEN "sleep" ELSE "body")
    ELSE "connect"

\* lines 59-66: the positions of reconnect after its connect request
AttemptPcs == {"r_cond", "r_sleep", "r_check", "r_ret"}

\* the caller goes on while the attempt it started is still running
AfterAwait_Detached(n) == n

\* lines 54, 75: reconnect is awaited, so when control is back in the caller,
\* by a return or by an exception, the attempt has ended
AfterAwait(n) == n - 1

\* a handler that goes straight back to the loop test
AfterHandler_NoSleep == "m_while"

\* lines 85-86: after an except clause the finally clause sleeps
AfterHandler == "m_finally"

\* a reconnect that ends its wait when it is cancelled and reports a failure
ReconnectCatches_Cancel(kind) == kind = "cancel"

\* lines 52-66: connect and reconnect have no try statement
ReconnectCatches(kind) == FALSE

\* An exception of `kind` raised at the current position unwinds the frames:
\* reconnect and connect (no handler), monitor's try (lines 71-86, the finally
\* clause then sleeps), then start's try (lines 44-50), then the caller.
Raise(kind) ==
    /\ excKind' = kind
    /\ excAt' = Where
    /\ IF pc \in AttemptPcs /\ ReconnectCatches(kind)
       THEN /\ pc' = "r_check"
            /\ UNCHANGED <<localVars, connectRet, open, inMonitor, outcome,
                           lastLog, iterEnd>>
       ELSE /\ connectRet' = "none"
            /\ open' = IF pc \in AttemptPcs THEN AfterAwait(open) ELSE open
            /\ ClearLocals
            /\ IF InTry /\ MonitorCatches(kind)
               THEN /\ pc' = AfterHandler
                    /\ lastLog' = MonitorLog(kind)
                    /\ iterEnd' = kind
                    /\ UNCHANGED <<inMonitor, outcome>>
               ELSE /\ pc' = "done"
                    /\ inMonitor' = FALSE
                    /\ iterEnd' = iterEnd
                    /\ IF entry = "start" /\ StartCatches(kind)
                       THEN /\ outcome' = "returned"
                            /\ lastLog' = StartLog(kind)
                       ELSE /\ outcome' = kind
                            /\ lastLog' = lastLog

(* ------------------------------- the task ------------------------------ *)

\* the caller awaits one of the coroutines
Call ==
    /\ pc = "idle"
    /\ \E e \in Entries, t \in Timeouts, r \in BOOLEAN, f \in BOOLEAN :
        /\ entry' = e
        /\ IF e = "monitor"
           THEN /\ pc' = "m_enter" /\ timeout' = 0 /\ callArg' = 0
                /\ hasRcb' = r /\ hasFcb' = f
           ELSE /\ pc' = IF e = "reconnect" THEN "r_start" ELSE "c_active"
                /\ timeout' = IF e = "reconnect" THEN t ELSE 0
                /\ callArg' = IF e = "reconnect" THEN 0 ELSE t
                /\ hasRcb' = (r /\ e = "start")
                /\ hasFcb' = (f /\ e = "start")
    /\ UNCHANGED <<inMonitor, running, outcome, elapsed, retval, lastPoll, obsConn,
                   obsDropped, reqs, lastReq, radioVars, histVars, propVars, cfgVars>>

\* connect runs reconnect with the default timeout
ConnectTimeout_Default(arg) == DefaultTimeout

\* line 54: the timeout connect hands to reconnect
ConnectTimeout(arg) == arg

\* lines 53-54
ConnectActivate ==
    /\ pc = "c_active"
    /\ wlanActive' = TRUE
    /\ timeout' = ConnectTimeout(callArg)
    /\ pc' = "r_start"
    /\ UNCHANGED <<entry, inMonitor, running, hasRcb, hasFcb, outcome, elapsed, retval,
                   lastPoll, obsConn, obsDropped, callArg, reqs, lastReq,
                   wlanConnected, wlanStatus, histVars, propVars, cfgVars>>

\* lines 88-94: the credentials the supervisor was constructed with
ssid == "net"
password == "key"

\* line 58: the arguments of wlan.connect
ConnectArgs == <<ssid, password>>

\* lines 57-58
ReconnectBegin ==
    /\ pc = "r_start"
    /\ elapsed' = 0
    /\ reqs' = reqs + 1
    /\ open' = open + 1
    /\ lastReq' = ConnectArgs
    /\ connectRet' = "none"
    /\ pc' = "r_cond"
    /\ UNCHANGED <<entry, inMonitor, running, hasRcb, hasFcb, outcome, timeout,
                   retval, lastPoll, obsConn, obsDropped, callArg, radioVars, lastLog, excKind,
                   excAt, iterEnd, iter, nSleeps, nSucc, nFail, nRcb, nFcb, cbArg, counting,
                   reentries, entered, stopIter, propVars, cfgVars>>

\* line 59
ReconnectPoll ==
    /\ pc = "r_cond"
    /\ pc' = IF LoopCond(wlanConnected, wlanStatus, elapsed, timeout)
             THEN "r_sleep" ELSE "r_check"
    /\ lastPoll' = PollSees(wlanConnected, wlanStatus)
    /\ Observe(wlanConnected)
    /\ UNCHANGED <<entry, inMonitor, running, hasRcb, hasFcb, outcome, timeout,
                   elapsed, retval, callArg, reqs, lastReq, radioVars, histVars, propVars,
                   cfgVars>>

\* line 60, the sleep completes
ReconnectSleep ==
    /\ pc = "r_sleep"
    /\ elapsed' = elapsed + PollMs
    /\ pc' = "r_cond"
    /\ UNCHANGED <<entry, inMonitor, running, hasRcb, hasFcb, outcome, timeout,
                   retval, lastPoll, obsConn, obsDropped, callArg, reqs, lastReq, radioVars,
                   histVars, propVars, cfgVars>>

\* lines 61-65
ReconnectCheck ==
    /\ pc = "r_check"
    /\ lastLog' = OutcomeLog(wlanConnected)
    /\ Observe(wlanConnected)
    /\ pc' = "r_ret"
    /\ UNCHANGED <<entry, inMonitor, running, hasRcb, hasFcb, outcome, timeout,
                   elapsed, retval, callArg, reqs, lastReq, lastPoll, radioVars, excKind,
                   excAt, iterEnd, iter, nSleeps, nSucc, nFail, nRcb, nFcb, cbArg, counting,
                   reentries, entered, open, stopIter, connectRet, propVars, cfgVars>>

\* start gives up when connect returned False
StartContinues_OnSuccess(result) == result = "true"

\* lines 45-46: start discards what connect returned and awaits monitor
StartContinues(result) == TRUE

\* line 66; the value goes to monitor (line 75), through connect to start
\* (lines 54, 45) or to the caller
ReconnectReturn ==
    /\ pc = "r_ret"
    /\ retval' = ReturnValue(wlanConnected)
    /\ Observe(wlanConnected)
    /\ IF inMonitor
       THEN /\ pc' = "m_cb"
            /\ nSucc' = IF wlanConnected THEN Count(nSucc) ELSE nSucc
            /\ nFail' = IF wlanConnected THEN nFail ELSE Count(nFail)
            /\ outcome' = outcome
       ELSE /\ UNCHANGED <<nSucc, nFail>>
            /\ IF entry = "start" /\ StartContinues(retval')
               THEN pc' = "m_enter" /\ outcome' = outcome
               ELSE pc' = "done" /\ outcome' = "returned"
    /\ open' = AfterAwait(open)
    /\ connectRet' = IF entry = "start" /\ ~inMonitor THEN retval' ELSE connectRet
    /\ UNCHANGED <<entry, inMonitor, running, hasRcb, hasFcb, timeout, elapsed,
                   callArg, reqs, lastReq, lastPoll, radioVars, lastLog, excKind, excAt,
                   iterEnd, iter, nSleeps, nRcb, nFcb, cbArg, counting, reentries, entered,
                   stopIter, propVars, cfgVars>>

\* a monitor that leaves the flag as it finds it
RunningOnEntry_Keep(r) == r

\* line 69: the value monitor gives _running, whatever it was
RunningOnEntry(r) == TRUE

\* line 69; the assignment overwrites a stop requested before the call
MonitorEnter ==
    /\ pc = "m_enter"
    /\ running' = RunningOnEntry(running)
    /\ entered' = IF stopIter = -1 THEN "clean" ELSE "after_stop"
    /\ inMonitor' = TRUE
    /\ stopIter' = -1
    /\ ClearLocals
    /\ pc' = "m_while"
    /\ UNCHANGED <<entry, hasRcb, hasFcb, outcome, radioVars, lastLog, excKind,
                   excAt, iterEnd, iter, nSleeps, nSucc, nFail, nRcb, nFcb, cbArg,
                   counting, reentries, open, connectRet, propVars, cfgVars>>

\* a loop that never looks at the flag
WhileCond_Always(r) == TRUE

\* line 70: the condition of monitor's loop
WhileCond(r) == r

\* line 70; excKind, excAt and cbArg describe one iteration and start afresh
MonitorTest ==
    /\ pc = "m_while"
    /\ entered' = "no"
    /\ IF WhileCond(running)
       THEN /\ counting => iter < MaxIter
            /\ iter' = Count(iter)
            /\ pc' = "m_trace"
            /\ excKind' = "none"
            /\ excAt' = "none"
            /\ cbArg' = "none"
            /\ UNCHANGED <<inMonitor, outcome>>
       ELSE /\ pc' = "done"
            /\ inMonitor' = FALSE
            /\ outcome' = "returned"
            /\ UNCHANGED <<iter, excKind, excAt, cbArg>>
    /\ UNCHANGED <<entry, running, hasRcb, hasFcb, localVars, radioVars, lastLog,
                   iterEnd, nSleeps, nSucc, nFail, nRcb, nFcb, counting, reentries, open,
                   stopIter, connectRet, propVars, cfgVars>>

\* lines 72-73; iterEnd holds the end of the previous body until here
MonitorTrace ==
    /\ pc = "m_trace"
    /\ lastLog' = "trace:status"
    /\ iterEnd' = "none"
    /\ pc' = "m_if"
    /\ UNCHANGED <<entry, inMonitor, running, hasRcb, hasFcb, outcome, localVars,
                   radioVars, excKind, excAt, iter, nSleeps, nSucc, nFail, nRcb, nFcb, cbArg,
                   counting, reentries, entered, open, stopIter, connectRet, propVars,
                   cfgVars>>

\* an iteration that reconnects only a radio that is switched off
NeedsReconnect_Inactive(active, connected) == (~active) /\ ~connected

\* line 74: whether the iteration makes a reconnect attempt
NeedsReconnect(active, connected) == active /\ ~connected

\* lines 74-75
MonitorCheck ==
    /\ pc = "m_if"
    /\ IF NeedsReconnect(wlanActive, wlanConnected)
       THEN /\ pc' = "r_start"
            /\ timeout' = DefaultTimeout
            /\ iterEnd' = iterEnd
            /\ connectRet' = connectRet
       ELSE /\ pc' = "m_finally"
            /\ iterEnd' = "ok"
            /\ timeout' = timeout
            /\ connectRet' = "none"
    /\ UNCHANGED <<entry, inMonitor, running, hasRcb, hasFcb, outcome, elapsed,
                   retval, lastPoll, obsConn, obsDropped, callArg, reqs, lastReq, radioVars,
                   lastLog, excKind, excAt, iter, nSleeps, nSucc, nFail, nRcb, nFcb, cbArg,
                   counting, reentries, entered, open, stopIter, propVars, cfgVars>>

\* lines 36-38
ip_address(connected) == IF connected THEN "ip" ELSE None

\* the two branches of line 75 exchanged
Callback_Swapped(result) == IF result = "true" THEN "failure" ELSE "reconnect"

\* lines 75-80: the callback the result of the attempt selects
Callback(result) == IF result = "true" THEN "reconnect" ELSE "failure"

\* lines 75-80; a callback that is invoked may raise
MonitorCallback ==
    /\ pc = "m_cb"
    /\ LET cb == Callback(retval)
           called == IF cb = "reconnect" THEN hasRcb ELSE hasFcb
       IN /\ nRcb' = IF cb = "reconnect" /\ called THEN Count(nRcb) ELSE nRcb
          /\ nFcb' = IF cb = "failure" /\ called THEN Count(nFcb) ELSE nFcb
          /\ cbArg' = IF cb = "reconnect" /\ called
                      THEN ip_address(wlanConnected) ELSE cbArg
          /\ \/ /\ pc' = "m_finally"
                /\ iterEnd' = "ok"
                /\ ClearLocals
                /\ UNCHANGED <<inMonitor, outcome, lastLog, excKind, excAt,
                               connectRet, open>>
             \/ /\ called
                /\ Raise("fault")
    /\ UNCHANGED <<entry, running, hasRcb, hasFcb, radioVars, iter, nSleeps, nSucc,
                   nFail, counting, reentries, entered, stopIter, propVars, cfgVars>>

\* line 86, the sleep completes
MonitorSleep ==
    /\ pc = "m_finally"
    /\ nSleeps' = Count(nSleeps)
    /\ pc' = "m_while"
    /\ UNCHANGED <<entry, inMonitor, running, hasRcb, hasFcb, outcome, localVars,
                   radioVars, lastLog, excKind, excAt, iterEnd, iter, nSucc, nFail, nRcb, nFcb,
                   cbArg, counting, reentries, entered, open, stopIter, connectRet, propVars,
                   cfgVars>>

\* the positions where the task calls the radio driver
RadioCallPcs == {"c_active", "r_start", "r_cond", "r_check", "r_ret", "m_trace", "m_if"}

\* the positions where the task is suspended in sleep_ms (lines 60 and 86)
SuspendPcs == {"r_sleep", "m_finally"}

\* a call of the radio driver raises an exception
RadioFault ==
    /\ pc \in RadioCallPcs
    /\ Raise("fault")
    /\ UNCHANGED <<entry, running, hasRcb, hasFcb, radioVars, iter, nSleeps, nSucc,
                   nFail, nRcb, nFcb, cbArg, counting, reentries, entered, stopIter, propVars,
                   cfgVars>>

\* CancelledError is thrown into the task at the sleep_ms it is suspended in
Cancelled ==
    /\ pc \in SuspendPcs
    /\ Raise("cancel")
    /\ UNCHANGED <<entry, running, hasRcb, hasFcb, radioVars, iter, nSleeps, nSucc,
                   nFail, nRcb, nFcb, cbArg, counting, reentries, entered, stopIter, propVars,
                   cfgVars>>

\* monitor is awaited again after an earlier call of it has ended
CallAgain ==
    /\ pc = "done"
    /\ entry = "monitor"
    /\ reentries < MaxReentries
    /\ reentries' = reentries + 1
    /\ pc' = "m_enter"
    /\ outcome' = "none"
    /\ \E r \in BOOLEAN, f \in BOOLEAN : hasRcb' = r /\ hasFcb' = f
    /\ excKind' = "none"
    /\ excAt' = "none"
    /\ iterEnd' = "none"
    /\ iter' = 0
    /\ nSleeps' = 0
    /\ nSucc' = 0
    /\ nFail' = 0
    /\ nRcb' = 0
    /\ nFcb' = 0
    /\ cbArg' = "none"
    /\ UNCHANGED <<entry, inMonitor, running, localVars, radioVars, lastLog,
                   counting, connectRet, stopIter, open, entered, propVars, cfgVars>>

(* --------------------------- the environment --------------------------- *)

\* the link state of the radio changes
RadioChange ==
    /\ pc \notin {"idle", "done"}
    /\ \E c \in BOOLEAN, s \in StatusValues :
        /\ <<c, s>> # <<wlanConnected, wlanStatus>>
        /\ wlanConnected' = c
        /\ wlanStatus' = s
    /\ UNCHANGED <<taskVars, localVars, wlanActive, histVars, propVars, cfgVars>>

\* another task sets _running to False while this one is suspended; one
\* request is pending at a time
StopRequest ==
    /\ pc \in SuspendPcs
    /\ running \/ stopIter = -1
    /\ running' = FALSE
    /\ stopIter' = iter
    /\ UNCHANGED <<entry, pc, inMonitor, hasRcb, hasFcb, outcome, localVars,
                   radioVars, lastLog, excKind, excAt, iterEnd, iter, nSleeps, nSucc, nFail,
                   nRcb, nFcb, cbArg, counting, reentries, entered, open, connectRet, propVars,
                   cfgVars>>

(* ------------------------ configuration properties --------------------- *)

\* a setter that compares the wrong way round
Changed_Inverted(current, new) == current = new

\* a setter without its guard
Changed_Always(current, new) == TRUE

\* lines 102, 112: the guard of the setters
Changed(current, new) == current # new

\* lines 100-104
SetCountry(v) ==
    /\ lastOp' = [op |-> "country_code", arg |-> v]
    /\ IF Changed(country_code, v)
       THEN country_code' = v /\ countryCalls' = Append(countryCalls, v)
       ELSE UNCHANGED <<country_code, countryCalls>>

\* lines 110-114
SetPower(v) ==
    /\ lastOp' = [op |-> "power_mode", arg |-> v]
    /\ IF Changed(power_mode, v)
       THEN power_mode' = v /\ pmCalls' = Append(pmCalls, v)
       ELSE UNCHANGED <<power_mode, pmCalls>>

\* lines 15-27: __init__ assigns power_mode, then country_code, through the setters
Construct ==
    /\ ~constructed
    /\ \E cc \in CountryCodes, pm \in PowerModes, reset \in BOOLEAN :
        /\ deinitCalls' = IF reset THEN deinitCalls + 1 ELSE deinitCalls
        /\ power_mode' = pm
        /\ pmCalls' = IF Changed(power_mode, pm) THEN Append(pmCalls, pm) ELSE pmCalls
        /\ country_code' = cc
        /\ countryCalls' = IF Changed(country_code, cc)
                           THEN Append(countryCalls, cc) ELSE countryCalls
        /\ lastOp' = [op |-> "init", arg |-> <<cc, pm>>]
    /\ constructed' = TRUE
    /\ running' = FALSE
    /\ UNCHANGED <<entry, pc, inMonitor, hasRcb, hasFcb, outcome, localVars,
                   radioVars, histVars, cfgVars>>

SetCountryCode ==
    /\ constructed
    /\ Len(countryCalls) < MaxWrites
    /\ \E v \in CountryCodes : SetCountry(v)
    /\ UNCHANGED <<taskVars, localVars, radioVars, histVars, cfgVars, constructed,
                   power_mode, pmCalls, deinitCalls>>

SetPowerMode ==
    /\ constructed
    /\ Len(pmCalls) < MaxWrites
    /\ \E v \in PowerModes : SetPower(v)
    /\ UNCHANGED <<taskVars, localVars, radioVars, histVars, cfgVars, constructed,
                   country_code, countryCalls, deinitCalls>>

(* ------------------------- the configuration store --------------------- *)

\* wifi_configuration.py line 11
properties == <<"ssid", "password">>

CfgValues == {None, "net", "lab"}

\* the dictionaries over the property names
Dicts == UNION {[d -> CfgValues] : d \in SUBSET {"ssid", "password"}}

EmptyDict == [k \in {} |-> None]

\* config[name] = value
DictSet(config, name, value) ==
    [k \in DOMAIN config \cup {name} |-> IF k = name THEN value ELSE config[k]]

\* wifi_configuration.py lines 24-25: one round of the loop of to_dict
to_dict_step(config, name, obj) ==
    IF name \in DOMAIN config THEN DictSet(config, name, obj[name]) ELSE config

RECURSIVE to_dict_from(_, _, _)
to_dict_from(config, i, obj) ==
    IF i > Len(properties) THEN config
    ELSE to_dict_from(to_dict_step(config, properties[i], obj), i + 1, obj)

\* wifi_configuration.py lines 21-26
to_dict(obj) == to_dict_from(EmptyDict, 1, obj)

\* wifi_configuration.py lines 45-46: one round of the loop of update
update_step(obj, name, config) ==
    IF name \in DOMAIN config THEN [obj EXCEPT ![name] = config[name]] ELSE obj

RECURSIVE update_from(_, _, _)
update_from(obj, i, config) ==
    IF i > Len(properties) THEN obj
    ELSE update_from(update_step(obj, properties[i], config), i + 1, config)

\* wifi_configuration.py lines 43-46
update(obj, config) == update_from(obj, 1, config)

\* json: None is written as null, a string between quotes
JsonValue(v) == IF v = None THEN [t |-> "null", s |-> ""] ELSE [t |-> "str", s |-> v]

PyValue(j) == IF j.t = "null" THEN None ELSE j.s

RECURSIVE JsonMembers(_, _)
JsonMembers(config, i) ==
    IF i > Len(properties) THEN <<>>
    ELSE LET k == properties[i]
         IN (IF k \in DOMAIN config
             THEN <<[key |-> k, value |-> JsonValue(config[k])]>> ELSE <<>>)
            \o JsonMembers(config, i + 1)

\* json.dump (line 51): the members of the object, in insertion order
JsonDump(config) == JsonMembers(config, 1)

\* json.load (line 35): the dictionary the text denotes
JsonLoad(text) ==
    [k \in {text[i].key : i \in 1..Len(text)} |->
        PyValue(text[CHOOSE i \in 1..Len(text) :
                        /\ text[i].key = k
                        /\ \A j \in (i + 1)..Len(text) : text[j].key # k].value)]

\* wifi_configuration.py lines 13-16
CfgNew ==
    /\ \E s \in CfgValues, p \in CfgValues :
        /\ cfg' = [ssid |-> s, password |-> p]
        /\ cfgPhase' = IF cfgPhase = "saved" /\ s = None /\ p = None
                       THEN "fresh" ELSE "init"
    /\ UNCHANGED <<file, saved, taskVars, localVars, radioVars, histVars, propVars>>

\* wifi_configuration.py lines 43-46, called with any dictionary
CfgUpdate ==
    /\ \E config \in Dicts : cfg' = update(cfg, config)
    /\ cfgPhase' = "init"
    /\ UNCHANGED <<file, saved, taskVars, localVars, radioVars, histVars, propVars>>

\* wifi_configuration.py lines 48-51
CfgSave ==
    /\ file' = [exists |-> TRUE, text |-> JsonDump(to_dict(cfg))]
    /\ saved' = cfg
    /\ cfgPhase' = "saved"
    /\ UNCHANGED <<cfg, taskVars, localVars, radioVars, histVars, propVars>>

\* wifi_configuration.py lines 32-41; a missing file (errno 2) is passed over
CfgLoad ==
    /\ cfg' = IF file.exists THEN update(cfg, JsonLoad(file.text)) ELSE cfg
    /\ cfgPhase' = IF cfgPhase = "fresh" THEN "loaded" ELSE "init"
    /\ UNCHANGED <<file, saved, taskVars, localVars, radioVars, histVars, propVars>>

(* ---------------------------- specifications --------------------------- *)

InitTaskVars ==
    /\ entry = "none"
    /\ pc = "idle"
    /\ inMonitor = FALSE
    /\ hasRcb = FALSE
    /\ hasFcb = FALSE
    /\ outcome = "none"
    /\ timeout = 0
    /\ elapsed = 0
    /\ retval = "none"
    /\ lastPoll = "none"
    /\ obsConn = FALSE
    /\ obsDropped = FALSE
    /\ callArg = 0
    /\ reqs = 0
    /\ lastReq = <<>>
    /\ lastLog = "none"
    /\ excKind = "none"
    /\ excAt = "none"
    /\ iterEnd = "none"
    /\ iter = 0
    /\ nSleeps = 0
    /\ nSucc = 0
    /\ nFail = 0
    /\ nRcb = 0
    /\ nFcb = 0
    /\ cbArg = "none"
    /\ reentries = 0
    /\ entered = "no"
    /\ open = 0
    /\ stopIter = -1
    /\ connectRet = "none"

\* a supervisor constructed with the default settings; the radio in any state
Constructed ==
    /\ InitTaskVars
    /\ running = FALSE
    /\ wlanActive \in BOOLEAN
    /\ wlanConnected \in BOOLEAN
    /\ wlanStatus \in StatusValues
    /\ constructed = TRUE
    /\ country_code = DefaultCountry
    /\ power_mode = DefaultPowerMode
    /\ countryCalls = <<DefaultCountry>>
    /\ pmCalls = <<DefaultPowerMode>>
    /\ deinitCalls = 0
    /\ lastOp = [op |-> "init", arg |-> <<DefaultCountry, DefaultPowerMode>>]

\* no configuration object, no record
StoreUnused ==
    /\ cfg = [ssid |-> None, password |-> None]
    /\ file = [exists |-> FALSE, text |-> <<>>]
    /\ saved = cfg
    /\ cfgPhase = "init"

Init == Constructed /\ counting = TRUE /\ StoreUnused

Next ==
    \/ Call
    \/ ConnectActivate
    \/ ReconnectBegin
    \/ ReconnectPoll
    \/ ReconnectSleep
    \/ ReconnectCheck
    \/ ReconnectReturn
    \/ MonitorEnter
    \/ MonitorTest
    \/ MonitorTrace
    \/ MonitorCheck
    \/ MonitorCallback
    \/ MonitorSleep
    \/ CallAgain
    \/ RadioFault
    \/ Cancelled
    \/ RadioChange
    \/ StopRequest

Spec == Init /\ [][Next]_vars

\* the steps the task takes by itself: the scheduler resumes a task whose
\* sleep_ms has expired, and the code between two awaits runs to completion
Task ==
    \/ Call
    \/ ConnectActivate
    \/ ReconnectBegin
    \/ ReconnectPoll
    \/ ReconnectSleep
    \/ ReconnectCheck
    \/ ReconnectReturn
    \/ MonitorEnter
    \/ MonitorTest
    \/ MonitorTrace
    \/ MonitorCheck
    \/ MonitorCallback
    \/ MonitorSleep

\* the same program without the counters, so that the loop of monitor runs on
InitLive == Constructed /\ counting = FALSE /\ StoreUnused

LiveSpec == InitLive /\ [][Next]_vars /\ WF_vars(Task)

\* before __init__: lines 18-19 set both settings to None
InitProps ==
    /\ InitTaskVars
    /\ counting = TRUE
    /\ running = FALSE
    /\ wlanActive = FALSE
    /\ wlanConnected = FALSE
    /\ wlanStatus = 0
    /\ constructed = FALSE
    /\ country_code = None
    /\ power_mode = UnsetPowerMode
    /\ countryCalls = <<>>
    /\ pmCalls = <<>>
    /\ deinitCalls = 0
    /\ lastOp = [op |-> "none", arg |-> None]
    /\ StoreUnused

NextProps ==
    \/ Construct
    \/ SetCountryCode
    \/ SetPowerMode

SpecProps == InitProps /\ [][NextProps]_vars

\* a default WifiConfiguration; the record is missing or holds an object
\* written earlier
InitCfg ==
    /\ Constructed
    /\ counting = TRUE
    /\ ~wlanActive /\ ~wlanConnected /\ wlanStatus = 0
    /\ cfg = [ssid |-> None, password |-> None]
    /\ \/ file = [exists |-> FALSE, text |-> <<>>]
       \/ \E d \in Dicts : file = [exists |-> TRUE, text |-> JsonDump(d)]
    /\ saved = cfg
    /\ cfgPhase = "init"

NextCfg ==
    \/ CfgNew
    \/ CfgUpdate
    \/ CfgSave
    \/ CfgLoad

SpecCfg == InitCfg /\ [][NextCfg]_vars

(* ------------------------------- claims -------------------------------- *)

Returned == retval # "none"

\* C1: a cancellation delivered while monitor is suspended, in the reconnect
\* poll of an iteration or in the pollInterval sleep, ends the loop: in the
\* state the cancellation leaves, and from then on, monitor has exited, so no
\* iteration body, reconnect attempt or pollInterval sleep follows it.
C1_CancelStopsMonitor ==
    (excKind = "cancel" /\ excAt \in {"body", "sleep"})
        => (pc = "done" /\ ~inMonitor)

\* C2: a cancellation delivered to start, in the poll of connect, in the
\* reconnect poll of a monitor iteration or in the pollInterval sleep, leads to
\* start having returned normally, and start never ends by raising the
\* cancellation to its caller.
C2_CancelEndsStart ==
    /\ (entry = "start" /\ excKind = "cancel") ~> (pc = "done" /\ outcome = "returned")
    /\ [](entry = "start" => outcome # "cancel")

\* C3: start never raises to its caller; a fault raised in the connect phase is
\* caught by start, logged at error level, and start returns normally.
C3_StartNeverRaises ==
    /\ entry = "start" => outcome \in {"none", "returned"}
    /\ (entry = "start" /\ excKind = "fault" /\ excAt = "connect")
          => (pc = "done" /\ outcome = "returned" /\ lastLog = "error:start")

C3_Witness ==
    /\ entry = "start"
    /\ excKind = "fault"
    /\ excAt = "connect"
    /\ outcome = "returned"

\* C4: a fault raised in the body of an iteration of monitor is caught and
\* logged at error level, leaves running as it was and the loop alive: the task
\* goes to the pollInterval sleep, the completed sleep leads to the loop test,
\* and the loop test, with running still true, starts the next iteration; the
\* loop ends after the fault only by a stop request seen at the loop test.
C4_FaultIsolated ==
    /\ []((excKind = "fault" /\ excAt = "body")
            => /\ iterEnd = "fault"
               /\ \/ inMonitor /\ pc = "m_finally" /\ lastLog = "error:monitor"
                  \/ inMonitor /\ pc = "m_while"
                  \/ pc = "done" /\ ~running /\ outcome = "returned")
    /\ [][(excKind' = "fault" /\ excAt' = "body" /\ excKind # "fault")
            => (running' = running /\ pc' = "m_finally")]_vars
    /\ [][(iterEnd = "fault" /\ pc = "m_finally" /\ pc' \notin {"m_finally", "done"})
            => (pc' = "m_while" /\ nSleeps' = nSleeps + 1 /\ running' = running)]_vars
    /\ [][(iterEnd = "fault" /\ pc = "m_while" /\ running /\ pc' # pc)
            => (pc' = "m_trace" /\ iter' = iter + 1)]_vars

C4_Witness ==
    /\ iterEnd = "fault"
    /\ pc = "m_trace"
    /\ iter = 2
    /\ nSleeps = 1
    /\ running

\* C5: when no query of the attempt reports connected and no poll reports a
\* negative status, reconnect(T) returns false with T <= elapsed <= T + 50; the
\* elapsed time of an attempt never exceeds T + 50, so the poll loop ends.
C5_TimeoutBounds ==
    /\ elapsed <= timeout + PollMs
    /\ (Returned /\ ~obsConn /\ lastPoll # "negative")
          => (retval = "false" /\ timeout <= elapsed /\ elapsed <= timeout + PollMs)

C5_Witness ==
    /\ Returned
    /\ ~obsConn
    /\ lastPoll = "pending"
    /\ retval = "false"
    /\ timeout = 75
    /\ elapsed = 100

\* C6: the task never sleeps in the poll after an evaluation of the loop
\* condition that saw the link connected or the status negative; an attempt
\* whose poll saw the link connected by the first poll, and whose later queries
\* still see it connected, returns true with at most one poll elapsed, whatever
\* T is; an attempt whose poll saw a negative status before T elapsed, and that
\* never saw the link connected, returns false before T has elapsed.
C6_EarlyExit ==
    /\ pc = "r_sleep" => lastPoll = "pending"
    /\ (Returned /\ lastPoll = "connected" /\ elapsed <= PollMs /\ ~obsDropped)
          => (retval = "true" /\ lastLog = "info:connected")
    /\ (Returned /\ lastPoll = "negative" /\ ~obsConn /\ elapsed < timeout)
          => (retval = "false" /\ lastLog = "warning:timeout")

C6_Witness ==
    /\ Returned
    /\ lastPoll = "connected"
    /\ elapsed = PollMs
    /\ timeout = DefaultTimeout
    /\ retval = "true"

\* C7: whenever reconnect has returned, the value it returned and the outcome
\* it logged agree: true with the informational connection record, false with
\* the warning.
C7_LogAgreesWithReturn ==
    Returned => /\ (retval = "true") = (lastLog = "info:connected")
                /\ (retval = "false") = (lastLog = "warning:timeout")

\* C8: an iteration of monitor starts a reconnect attempt exactly when the
\* radio is active and not connected; with both callbacks supplied every
\* returned attempt invokes exactly one callback, reconnect_callback (with the
\* result of ip_address()) after True and failure_callback after False, so the
\* invocations of each callback count the attempts that returned True and
\* False; an iteration makes at most one attempt.
C8_CallbackPerAttempt ==
    /\ []((hasRcb /\ hasFcb)
            => /\ nSucc = nRcb + (IF pc = "m_cb" /\ retval = "true" THEN 1 ELSE 0)
               /\ nFail = nFcb + (IF pc = "m_cb" /\ retval = "false" THEN 1 ELSE 0))
    /\ [](nSucc + nFail <= iter)
    /\ [][(pc = "m_if" /\ pc' # pc /\ excKind' = "none")
            => /\ (pc' = "r_start") = (wlanActive /\ ~wlanConnected)
               /\ pc' \in {"r_start", "m_finally"}]_vars
    /\ [][(pc = "m_cb" /\ pc' # pc /\ hasRcb /\ hasFcb)
            => /\ nRcb' + nFcb' = nRcb + nFcb + 1
               /\ (retval = "true") = (nRcb' = nRcb + 1)
               /\ (retval = "true")
                     => cbArg' = (IF wlanConnected THEN "ip" ELSE None)]_vars

C8_Witness ==
    /\ hasRcb
    /\ hasFcb
    /\ nSucc = 1
    /\ nFail = 1
    /\ nRcb = 1
    /\ nFcb = 1
    /\ cbArg = "ip"

\* C9: a set of country_code or power_mode to its current value leaves the
\* stored value and the radio untouched; a set to another value stores it and
\* makes exactly one radio configuration call, with the new value; __init__
\* makes the first call of each.
C9_SetterWritesOnChange ==
    /\ [][lastOp'.op = "country_code"
            => IF lastOp'.arg = country_code
               THEN country_code' = country_code /\ countryCalls' = countryCalls
               ELSE /\ country_code' = lastOp'.arg
                    /\ countryCalls' = Append(countryCalls, lastOp'.arg)]_vars
    /\ [][lastOp'.op = "power_mode"
            => IF lastOp'.arg = power_mode
               THEN power_mode' = power_mode /\ pmCalls' = pmCalls
               ELSE /\ power_mode' = lastOp'.arg
                    /\ pmCalls' = Append(pmCalls, lastOp'.arg)]_vars
    /\ [][(~constructed /\ constructed')
            => /\ countryCalls' = <<country_code'>>
               /\ pmCalls' = <<power_mode'>>]_vars

C9_Witness ==
    /\ lastOp.op = "country_code"
    /\ lastOp.arg = country_code
    /\ Len(countryCalls) = 2
    /\ Len(pmCalls) = 2

Range(seq) == {seq[i] : i \in 1..Len(seq)}

NoRepeat(seq) == \A i \in 1..(Len(seq) - 1) : seq[i] # seq[i + 1]

\* C10 as stated: over the lifetime of a supervisor every value is written to
\* the radio at most once.
C10_EachValueOnce ==
    /\ Cardinality(Range(countryCalls)) = Len(countryCalls)
    /\ Cardinality(Range(pmCalls)) = Len(pmCalls)

\* C10 as amended: no two consecutive writes to the radio carry the same
\* value, and the last value written is the stored one.
C10_NoConsecutiveRepeat ==
    /\ NoRepeat(countryCalls)
    /\ NoRepeat(pmCalls)
    /\ constructed => /\ countryCalls[Len(countryCalls)] = country_code
                      /\ pmCalls[Len(pmCalls)] = power_mode

C10_Witness ==
    /\ Len(countryCalls) = 3
    /\ countryCalls[1] = countryCalls[3]

(* --------------------------------- C11 --------------------------------- *)

\* C11: start awaits connect and then enters monitor whether connect returned
\* True or False; monitor is entered only after connect has returned; and when
\* connect returned False and the radio is still active and disconnected, the
\* first iteration of monitor makes a reconnect attempt.
C11_StartConnectsThenMonitors ==
    /\ [](entry = "start" /\ pc = "m_enter"
            => connectRet \in {"true", "false"} /\ ~inMonitor)
    /\ [][entry = "start" /\ pc = "r_ret" /\ ~inMonitor /\ retval' # "none"
            => pc' = "m_enter" /\ connectRet' = retval']_vars
    /\ [][entry = "start" /\ ~inMonitor /\ inMonitor'
            => pc = "m_enter" /\ connectRet # "none"]_vars
    /\ [][(entry = "start" /\ pc = "m_if" /\ connectRet = "false"
            /\ wlanActive /\ ~wlanConnected /\ pc' # pc /\ excKind' = "none")
            => pc' = "r_start" /\ iter = 1]_vars

C11_Witness ==
    /\ entry = "start" /\ inMonitor
    /\ connectRet = "false"
    /\ pc = "r_start" /\ iter = 1

(* --------------------------------- C12 --------------------------------- *)

\* C12: when a stop request sets running to False during iteration N (N >= 1),
\* monitor starts no iteration N+1, and its loop test ends it by a normal
\* return after exactly N iteration bodies and N pollInterval sleeps.  After
\* the request monitor ends in no other way, a cancellation delivered in the
\* pollInterval sleep excepted.
C12_StopAfterIteration ==
    /\ [](inMonitor /\ ~running => stopIter = iter /\ stopIter >= 1)
    /\ [][inMonitor /\ ~running => iter' = iter]_vars
    /\ [][(inMonitor /\ ~running /\ pc = "m_while" /\ pc' # pc)
            => /\ pc' = "done" /\ outcome' = "returned"
               /\ iter = stopIter /\ nSleeps = stopIter]_vars
    /\ [][(inMonitor /\ ~running /\ ~inMonitor')
            => \/ pc = "m_while" /\ outcome' = "returned"
               \/ pc = "m_finally" /\ excKind' = "cancel"]_vars

C12_Witness ==
    /\ pc = "done" /\ outcome = "returned" /\ ~running
    /\ stopIter = 2 /\ iter = 2 /\ nSleeps = 2

(* --------------------------------- C13 --------------------------------- *)

\* C13 as stated: nothing escapes a directly called monitor; neither a fault
\* nor a cancellation, at either suspension point, leaves it as an exception.
C13_NothingEscapesMonitor ==
    entry = "monitor" => outcome \in {"none", "returned"}

(* --------------------------------- C14 --------------------------------- *)

InConnect == entry \in {"connect", "start"} /\ ~inMonitor

\* C14: connect(timeout) activates the radio before any connect request, runs
\* reconnect with the same timeout and returns its boolean; one connect call
\* sends exactly one connect request, with the stored ssid and password, before
\* the first link-status poll; and no step deactivates the radio.
C14_ConnectProtocol ==
    /\ [](InConnect /\ pc = "r_start"
            => wlanActive /\ reqs = 0 /\ timeout = callArg)
    /\ [](InConnect /\ pc \in AttemptPcs
            => /\ wlanActive /\ timeout = callArg
               /\ reqs = 1 /\ lastReq = <<ssid, password>>)
    /\ []((InConnect /\ pc = "m_enter") \/ (entry = "connect" /\ outcome = "returned")
            => /\ reqs = 1 /\ lastReq = <<ssid, password>>
               /\ timeout = callArg /\ retval \in {"true", "false"})
    /\ [][InConnect /\ reqs' > reqs
            => wlanActive /\ lastPoll = "none" /\ pc' = "r_cond"]_vars
    /\ [][wlanActive => wlanActive']_vars

C14_Witness ==
    /\ entry = "connect" /\ pc = "done" /\ outcome = "returned"
    /\ callArg = 2 * PollMs /\ timeout = callArg
    /\ reqs = 1 /\ retval = "true" /\ elapsed = PollMs

(* --------------------------------- C15 --------------------------------- *)

\* C15 as stated: save() on a configuration followed by load() on a fresh
\* configuration at the same path yields the saved ssid and password, and the
\* record save writes is the mapping with exactly the keys ssid and password
\* and the current values.
C15_RoundTrip ==
    /\ cfgPhase = "loaded" => cfg = saved
    /\ cfgPhase = "saved"
        => /\ file.exists
           /\ JsonLoad(file.text) = [k \in {"ssid", "password"} |-> saved[k]]

(* --------------------------------- C16 --------------------------------- *)

\* C16: between two consecutive iteration bodies of monitor exactly one
\* pollInterval sleep happens, however the earlier body ended (link healthy,
\* reconnected, failed, exception caught); and the task is suspended, so that
\* time passes and a stop request or a cancellation can reach it, only in that
\* sleep and in the 50 ms poll of reconnect.
C16_OneSleepPerIteration ==
    /\ [](inMonitor => nSleeps = IF pc = "m_while" THEN iter ELSE iter - 1)
    /\ [](inMonitor /\ pc = "m_trace" /\ iter >= 2
            => iterEnd \in {"ok", "fault", "cancel"})
    /\ [][(inMonitor /\ iter' # iter) => iter' = iter + 1 /\ nSleeps = iter]_vars
    /\ [][(inMonitor /\ nSleeps' # nSleeps)
            => nSleeps' = nSleeps + 1 /\ pc = "m_finally" /\ pc' = "m_while"]_vars
    /\ [][(~inMonitor) => (iter' = iter \/ iter' = 0) /\ nSleeps' \in {nSleeps, 0}]_vars
    /\ [][elapsed' > elapsed => pc = "r_sleep"]_vars
    /\ [][\/ running /\ ~running'
          \/ excKind' = "cancel" /\ <<excKind, excAt>>' # <<excKind, excAt>>
          => pc \in {"r_sleep", "m_finally"}]_vars

C16_Witness ==
    /\ inMonitor /\ pc = "m_trace"
    /\ iter = 2 /\ nSleeps = 1
    /\ iterEnd = "fault"

(* --------------------------------- C17 --------------------------------- *)

\* C17: with one task driving the supervisor at most one reconnect attempt is
\* in progress at any time, and a new attempt begins only when the previous
\* one has ended, by returning or by being aborted.
C17_OneAttemptAtATime ==
    /\ [](open \in {0, 1})
    /\ [](open = 1 <=> pc \in AttemptPcs)
    /\ [][open' > open => open = 0 /\ pc = "r_start"]_vars

C17_Witness ==
    /\ inMonitor /\ iter = 2
    /\ pc = "r_cond" /\ open = 1
    /\ nFail = 1

(* --------------------------------- C18 --------------------------------- *)

Direct == entry \in {"connect", "reconnect"}

\* C18: a cancellation delivered while a directly called reconnect or connect
\* waits in its 50 ms poll ends the call by the exception: no further poll is
\* made, neither the success nor the failure record is logged, and no boolean
\* is returned.
C18_CancelPropagates ==
    /\ [][(Direct /\ pc = "r_sleep" /\ excKind' = "cancel")
            => /\ pc' = "done" /\ outcome' = "cancel"
               /\ retval' = "none" /\ lastLog' = lastLog]_vars
    /\ [](Direct /\ excKind = "cancel"
            => /\ pc = "done" /\ outcome = "cancel" /\ retval = "none"
               /\ lastLog \notin {"info:connected", "warning:timeout"})
    /\ [][(Direct /\ pc = "done") => UNCHANGED <<pc, lastLog, retval, lastPoll>>]_vars

C18_Witness ==
    /\ entry = "connect" /\ pc = "done"
    /\ excKind = "cancel" /\ excAt = "connect"
    /\ outcome = "cancel" /\ wlanActive

(* --------------------------------- C19 --------------------------------- *)

\* monitor is looping and nothing interrupts it
Undisturbed == inMonitor /\ running /\ excKind = "none"

\* C19: under weak fairness of the task, monitor heals the link.  When an
\* attempt of monitor has sent its connect request and the radio from then on
\* reports the link connected, with no fault and no cancellation, then
\* reconnect_callback (if one was given) is eventually invoked with the
\* address.  There is no retry limit: an iteration that finds the radio active
\* and disconnected always starts an attempt, and while monitor loops
\* undisturbed with the radio active and disconnected, attempts are started
\* again and again.
C19_SelfHealing ==
    /\ []((inMonitor /\ pc \in AttemptPcs /\ hasRcb
             /\ [](wlanActive /\ wlanConnected /\ excKind = "none"))
            => <>(cbArg = "ip" /\ wlanConnected))
    /\ (<>[](Undisturbed /\ wlanActive /\ ~wlanConnected))
            => []<>(pc = "r_start")
    /\ [][(inMonitor /\ pc = "m_if" /\ wlanActive /\ ~wlanConnected
             /\ pc' # pc /\ excKind' = "none")
            => pc' = "r_start"]_vars

C19_Witness ==
    /\ ~counting
    /\ inMonitor /\ pc = "m_finally"
    /\ cbArg = "ip" /\ wlanConnected /\ excKind = "none"

(* --------------------------------- C20 --------------------------------- *)

\* C20: every call of monitor sets running to True on entry, whatever it was,
\* and runs at least one iteration body: a stop requested before the entry
\* (during start's connect phase, or the one that ended an earlier call) is
\* overwritten, and monitor is entered again only after it has stopped.
C20_EntryOverwritesStop ==
    /\ [][(pc = "m_enter" /\ pc' # pc)
            => /\ pc' = "m_while" /\ running' /\ inMonitor'
               /\ stopIter' = -1
               /\ entered' = IF stopIter = -1 THEN "clean" ELSE "after_stop"]_vars
    /\ [](entered # "no" => pc = "m_while" /\ running /\ inMonitor)
    /\ [][(entered # "no" /\ pc' # pc)
            => pc' = "m_trace" /\ iter' = iter + 1 /\ running']_vars
    /\ [](inMonitor /\ pc # "m_while" => iter >= 1)
    /\ [][reentries' # reentries
            => pc = "done" /\ ~inMonitor /\ pc' = "m_enter"]_vars

C20_Witness ==
    /\ entry = "monitor" /\ reentries = 1
    /\ entered = "after_stop"
    /\ pc = "m_while" /\ running /\ inMonitor

====
